---- MODULE Spec2Model ----
(***************************************************************************)
(* Ingestion-and-prediction pipeline of the predictive-maintenance backend *)
(*   app/services/db_service.py   insert_reading, fetch_readings           *)
(*   app/api/v1/ingest.py         POST /ingest                             *)
(*   app/api/v1/machine_utils.py  call_ml_service_with_retry,              *)
(*                                score_to_label, PredictionResult         *)
(*   app/api/v1/predictions.py    compute_risk, predict                    *)
(*                                                                         *)
(* Numbers carried by the remote response (probabilities) are kept in      *)
(* hundredths, backoff delays in tenths of a time-unit.                    *)
(***************************************************************************)
EXTENDS Integers, Sequences, FiniteSets, TLC

\* ------------------------------------------------------------------ bounds
\* readings ingested in the pipeline specifications
MaxIngest == 1
\* readings ingested in the storage specification
MaxStored == 2
\* readings ingested before and during the single invocation of SpecWindow
MaxWindow == 3

\* ------------------------------------------------------- program constants
\* call_ml_service_with_retry(url, payload, retries=5, backoff=0.5)
Retries == 5
\* backoff=0.5, in tenths of a time-unit
Backoff == 5
\* score_to_label thresholds 0.3 and 0.7, in hundredths
NormalBelow == 30
WarningBelow == 70
\* compute_risk thresholds
TempDanger == 315
VibDanger == 2200
CurDanger == 85
TempWatch == 305
VibWatch == 1600
CurWatch == 65

\* ------------------------------------------------------------- JSON values
\* A loosely typed value of the remote response.  t is the JSON type;
\* n is the number (hundredths) for "num", the truth value for "bool" and the
\* number of members for "doc" / "arr"; s is the text of a "str" or the name
\* of the content of a "doc" / "arr".  "absent" is a key the document lacks.
JV(t, n, s) == [t |-> t, n |-> n, s |-> s]
Absent == JV("absent", 0, "")
Null == JV("null", 0, "")
Num(x) == JV("num", x, "")
Str(x) == JV("str", 0, x)
Bool(b) == JV("bool", IF b THEN 1 ELSE 0, "")
EmptyDoc == JV("doc", 0, "{}")
Doc(name) == JV("doc", 1, name)
Arr(name) == JV("arr", 1, name)

\* dict.get(key): an absent key reads as None
Get(v) == IF v.t = "absent" THEN Null ELSE v

\* Python truth value of a JSON value (None, 0, 0.0, "", False, {}, [] are falsy)
Truthy(v) ==
    CASE v.t \in {"absent", "null"} -> FALSE
      [] v.t \in {"num", "bool", "doc", "arr"} -> v.n # 0
      [] v.t = "str" -> v.s # ""

\* a or b
PyOr(a, b) == IF Truthy(a) THEN a ELSE b

\* ------------------------------------------------------------ compute_risk
\* an input that is not None and strictly above its threshold
Exceeds_strict_lost(v, th) == v.t # "null" /\ v.n >= th
Exceeds(v, th) == v.t # "null" /\ v.n > th

\* predictions.py compute_risk; inputs are Null or Num(x), x in natural units
compute_risk(temp_k, vib, current) ==
    IF temp_k.t = "null" /\ vib.t = "null" /\ current.t = "null"
    THEN "Unknown"
    ELSE IF Exceeds(temp_k, TempDanger) \/ Exceeds(vib, VibDanger)
            \/ Exceeds(current, CurDanger)
    THEN "Bahaya"
    ELSE IF Exceeds(temp_k, TempWatch) \/ Exceeds(vib, VibWatch)
            \/ Exceeds(current, CurWatch)
    THEN "Waspada"
    ELSE "Normal"

\* ---------------------------------------------------------- score_to_label
score_to_label(score) ==
    IF score < NormalBelow THEN "normal"
    ELSE IF score < WarningBelow THEN "warning" ELSE "failure"

\* ------------------------------------------- call_ml_service_with_retry
RECURSIVE Pow2(_)
Pow2(k) == IF k = 0 THEN 1 ELSE 2 * Pow2(k - 1)

\* backoff * (2 ** i)
BackoffDelay_linear(k) == Backoff * (k + 1)
BackoffDelay(k) == Backoff * Pow2(k)

\* range(retries) has another iteration after index k
HasNextAttempt_one_fewer(k) == k + 2 < Retries
HasNextAttempt(k) == k + 1 < Retries

\* -------------------------------------------- normalisation of the response
\* A response of the remote endpoint as r.json() returns it: a document
\* (kind "doc", one JSON value per key, Absent for a missing key) or any other
\* JSON value (kind "other", carried in val).
BaseDoc ==
    [kind |-> "doc", val |-> Absent,
     failure_probability |-> Absent, score |-> Absent,
     prediction_label |-> Absent, label |-> Absent,
     model_version |-> Absent, model_name |-> Absent,
     raw_scores |-> Absent, scores |-> Absent, probabilities |-> Absent,
     raw_features |-> Absent, features |-> Absent,
     meta |-> Absent, explain |-> Absent]
NonDoc(v) == [BaseDoc EXCEPT !.kind = "other", !.val = v]

\* strings float() parses, with their value in hundredths
FloatOfStr(s) ==
    CASE s = "0.42" -> 42
      [] s = "0.9" -> 90
      [] OTHER -> 0
ParsableStr == {"0.42", "0.9"}

\* float(failure_prob) if failure_prob is not None else None; None on error
ToFloat(v) ==
    CASE v.t \in {"absent", "null"} -> Null
      [] v.t = "num" -> v
      [] v.t = "bool" -> Num(100 * v.n)
      [] v.t = "str" -> IF v.s \in ParsableStr THEN Num(FloatOfStr(v.s)) ELSE Null
      [] OTHER -> Null

\* first of two keys: ml.get(a) or ml.get(b)
FirstOf(a, b) == PyOr(Get(a), Get(b))

\* ml.get("meta", ml.get("explain", {}))
MetaOf(ml) ==
    IF ml.meta.t # "absent" THEN ml.meta
    ELSE IF ml.explain.t # "absent" THEN ml.explain
    ELSE EmptyDoc

\* label_to_store: the remote label unless None, else the label of
\* score_to_label(failure_prob or 0.0)
LabelToStore_remote_only(prediction_label, failure_prob) == prediction_label
LabelToStore(prediction_label, failure_prob) ==
    IF prediction_label.t # "null" THEN prediction_label
    ELSE Str(score_to_label(IF Truthy(failure_prob) THEN failure_prob.n ELSE 0))

\* predict, from the isinstance(ml, dict) test to label_to_store
Normalize(ml) ==
    LET isdoc == ml.kind = "doc"
        fp == IF isdoc THEN FirstOf(ml.failure_probability, ml.score) ELSE Null
        pl == IF isdoc THEN FirstOf(ml.prediction_label, ml.label) ELSE Null
        mv == IF isdoc THEN FirstOf(ml.model_version, ml.model_name) ELSE Null
        rs == IF isdoc
              THEN PyOr(PyOr(Get(ml.raw_scores), Get(ml.scores)), Get(ml.probabilities))
              ELSE Null
        rf == IF isdoc THEN FirstOf(ml.raw_features, ml.features) ELSE Null
        mt == IF isdoc THEN MetaOf(ml) ELSE Doc("raw_ml_response")
        prob == ToFloat(fp)
    IN  [failure_prob |-> prob,
         prediction_label |-> pl,
         model_version |-> mv,
         raw_scores |-> rs,
         raw_features |-> rf,
         meta |-> mt,
         label_to_store |-> LabelToStore(pl, prob)]

\* json.dumps(x) if x is not None else "{}", as the jsonb value stored
DumpsOrEmpty(v) == IF v.t = "null" THEN EmptyDoc ELSE v

\* PredictionResult field validation: Optional[str] and Optional[dict]
IsOptStr(v) == v.t \in {"null", "str"}
IsOptDict(v) == v.t \in {"null", "doc"}

\* a value bound to a character varying column: a number is stored as its
\* decimal text
ColumnText(v) == IF v.t = "num" THEN JV("str", v.n, "decimal") ELSE v

\* parse_metadata(raw) on a jsonb value read back from the table
parse_metadata(raw) ==
    CASE raw.t = "null" -> Null
      [] raw.t = "doc" -> raw
      [] raw.t = "str" -> EmptyDoc
      [] OTHER -> Null

\* GET /ingest: limit = Query(100, gt=1, le=5000), offset = Query(0, ge=0)
ListLimitAbove == 1
ListLimitCap == 5000
ListOffsetMin == 0
ValidListQuery(limit, offset) ==
    limit > ListLimitAbove /\ limit <= ListLimitCap /\ offset >= ListOffsetMin

\* GET prediction-history: limit = Query(50, gt=1, le=2000)
HistoryLimitAbove == 1
HistoryLimitCap == 2000
ValidHistoryQuery(limit) == limit > HistoryLimitAbove /\ limit <= HistoryLimitCap

\* ------------------------------------------------------------------- state
Machines == {"m1", "m2"}
\* predict invocations that may be in flight together
Procs == {1, 2}

\* datetimes of the ingest payloads: wall-clock reading and UTC offset
Timestamps == {[local |-> 1, off |-> 0], [local |-> 2, off |-> 0]}
\* the instant a timestamptz column orders by
Instant(t) == t.local - t.off
\* datetime.isoformat(): text that compares by wall-clock reading, then offset
IsoFormat(t) == <<t.local, t.off>>

\* responses the remote endpoint sends in the pipeline specification
Responses ==
    { [BaseDoc EXCEPT !.failure_probability = Num(42)],
      [BaseDoc EXCEPT !.failure_probability = Num(90), !.prediction_label = Str("failure"),
                      !.model_version = Str("mock-v1"), !.raw_scores = Doc("p"),
                      !.raw_features = Doc("temp"), !.meta = Doc("mock")],
      [BaseDoc EXCEPT !.score = Num(20), !.label = Num(1)],
      NonDoc(Num(1)) }

\* responses of the single-invocation specification: every combination of the
\* probability and label keys, and each other group of keys on its own
ProbabilityValues ==
    {Absent, Null, Num(0), Num(20), Num(29), Num(30), Num(42), Num(50), Num(69),
     Num(70), Num(90), Num(100), Str("0.42"), Str("abc")}
ScoreValues == {Absent, Num(0), Num(90), Str("abc")}
PredictionLabelValues == {Absent, Null, Str(""), Str("failure"), Str("custom")}
LabelValues == {Absent, Str(""), Str("warning"), Num(1)}
\* responses that use only the canonical keys, all six of them
CanonicalResponses ==
    {[BaseDoc EXCEPT !.failure_probability = a, !.prediction_label = b,
                     !.model_version = Str("mock-v1"), !.raw_scores = c,
                     !.raw_features = Doc("temp"), !.meta = d] :
        a \in {Num(0), Num(42), Num(100)}, b \in {Str(""), Str("failure"), Str("custom")},
        c \in {EmptyDoc, Doc("p")}, d \in {EmptyDoc, Doc("mock")}}
AllResponses ==
    {[BaseDoc EXCEPT !.failure_probability = a, !.score = b,
                     !.prediction_label = c, !.label = d] :
        a \in ProbabilityValues, b \in ScoreValues,
        c \in PredictionLabelValues, d \in LabelValues}
    \cup {[BaseDoc EXCEPT !.model_version = a, !.model_name = b] :
            a \in {Absent, Str(""), Str("v1"), Num(2)}, b \in {Absent, Str("mock")}}
    \cup {[BaseDoc EXCEPT !.raw_scores = a, !.scores = b, !.probabilities = c] :
            a \in {Absent, EmptyDoc, Doc("p")}, b \in {Absent, Arr("s")},
            c \in {Absent, Doc("q")}}
    \cup {[BaseDoc EXCEPT !.raw_features = a, !.features = b] :
            a \in {Absent, EmptyDoc, Doc("temp")}, b \in {Absent, Doc("f")}}
    \cup {[BaseDoc EXCEPT !.meta = a, !.explain = b] :
            a \in {Absent, Null, EmptyDoc, Doc("mock"), Str("text")},
            b \in {Absent, Doc("why")}}
    \cup {NonDoc(v) : v \in {Null, Num(1), Str("ok"), Arr("scores"), Bool(TRUE)}}
    \cup {[BaseDoc EXCEPT !.label = a, !.model_version = b] :
            a \in {Absent, Doc("l"), Arr("l")}, b \in {Absent, Doc("v"), Arr("v")}}
    \cup CanonicalResponses
    \cup Responses

NoResponse == NonDoc(Absent)
\* str(x) of an id
StrOf(x) == <<"str", x>>
NoResult ==
    [prediction_id |-> StrOf(0), model_name |-> Null, label |-> Null,
     score |-> Null, meta |-> Null]
NoIngest == [id |-> 0, durable |-> "none", volatile |-> "none", status |-> "none"]
NoFetch ==
    [machine_id |-> "None", limit |-> 0, offset |-> 0, path |-> "none",
     rows |-> <<>>]
NoList ==
    [machine_id |-> "None", limit |-> 0, offset |-> 0, status |-> "none",
     rows |-> <<>>]
NoHistory == [machine_id |-> "None", limit |-> 0, status |-> "none", rows |-> <<>>]

VARIABLES
    engine,                   \* _engine is not None (fixed at import time)
    dbUp,                     \* the relational store answers
    sensor_readings,          \* rows of table sensor_readings
    predictions,              \* rows of table predictions, in commit order
    memory_store,             \* _memory_store
    memory_store_predictions, \* _memory_store_predictions
    nextId,                   \* ids handed out so far, plus one (uuid4 is fresh)
    lastIngest,               \* what the last POST /ingest did and returned
    fetched,                  \* arguments and result of the last fetch_readings
    listed,                   \* request and response of the last GET /ingest
    history_out,              \* request and response of the last prediction-history
    held,                     \* list a caller got from get_memory_store: the ids
                              \* of the record objects it refers to
    pc,                       \* per predict invocation: idle/attempt/sleep/done
    machine,                  \* its machine_id
    latest_sensor_id,         \* its latest_sensor_id
    i,                        \* loop index of call_ml_service_with_retry
    last_error,               \* last_error: 0 is None, k the error of attempt k
    attempts,                 \* outcome of every request it sent, in order
    slept,                    \* every delay it slept, in order
    ml,                       \* what call_ml_service_with_retry returned
    raised,                   \* what call_ml_service_with_retry raised (0: nothing)
    outcome,                  \* how the invocation ended
    result,                   \* the PredictionResult it returned
    risk_in,                  \* arguments of a compute_risk call
    risk_out                  \* its result

store == <<engine, dbUp, sensor_readings, memory_store, memory_store_predictions>>
ingestv == <<lastIngest, fetched, listed, history_out, held>>
procv == <<pc, machine, latest_sensor_id, i, last_error, attempts, slept, ml,
           raised, outcome, result>>
riskv == <<risk_in, risk_out>>
vars == <<store, predictions, nextId, ingestv, procv, riskv>>

NoRisk == <<Null, Null, Null>>

InitProcs ==
    /\ pc = [p \in Procs |-> "idle"]
    /\ machine = [p \in Procs |-> "m1"]
    /\ latest_sensor_id = [p \in Procs |-> 0]
    /\ i = [p \in Procs |-> 0]
    /\ last_error = [p \in Procs |-> 0]
    /\ attempts = [p \in Procs |-> <<>>]
    /\ slept = [p \in Procs |-> <<>>]
    /\ ml = [p \in Procs |-> NoResponse]
    /\ raised = [p \in Procs |-> 0]
    /\ outcome = [p \in Procs |-> "none"]
    /\ result = [p \in Procs |-> NoResult]

\* state after import of db_service: the engine was created or it was not
InitStore ==
    /\ engine \in BOOLEAN
    /\ dbUp = engine
    /\ sensor_readings = {}
    /\ predictions = <<>>
    /\ memory_store = <<>>
    /\ memory_store_predictions = <<>>
    /\ nextId = 1
    /\ lastIngest = NoIngest
    /\ fetched = NoFetch
    /\ listed = NoList
    /\ history_out = NoHistory
    /\ held = <<>>

Init ==
    /\ InitStore
    /\ InitProcs
    /\ risk_in = NoRisk
    /\ risk_out = "none"

\* ------------------------------------------------------ the relational store
\* the store becomes unreachable
DbFail ==
    /\ engine /\ dbUp
    /\ dbUp' = FALSE
    /\ UNCHANGED <<engine, sensor_readings, memory_store, memory_store_predictions,
                   predictions, nextId, ingestv, procv, riskv>>

\* the store is reachable again
DbRecover ==
    /\ engine /\ ~dbUp
    /\ dbUp' = TRUE
    /\ UNCHANGED <<engine, sensor_readings, memory_store, memory_store_predictions,
                   predictions, nextId, ingestv, procv, riskv>>

\* rows of sensor_readings WHERE machine_id = m
RowsOfTable(m) == {r \in sensor_readings : r.machine_id = m}

\* ------------------------------------------------------------ insert_reading
\* the durable insert is attempted and commits
DurableWrites == engine /\ dbUp

\* what insert_reading tells its caller after the fallback append
\* succeeded (appended) or raised: the id in both cases
InsertReadingStatus(appended) == "ok"

\* inserted_id = str(uuid.uuid4()): an id no reading carries yet
NewReadingId_previous == IF nextId > 1 THEN nextId - 1 ELSE nextId
NewReadingId == nextId

\* POST /ingest -> db_service.insert_reading(payload); memOk: the append to
\* _memory_store does not raise
IngestUpTo(max, m, t, memOk) ==
    /\ nextId <= max
    /\ nextId' = nextId + 1
    /\ IF DurableWrites
       THEN /\ sensor_readings' = sensor_readings \cup
                    {[id |-> NewReadingId, ts |-> t, machine_id |-> m]}
            /\ memory_store' = memory_store
            /\ lastIngest' = [id |-> NewReadingId, durable |-> "ok", volatile |-> "none",
                              status |-> "ok"]
       ELSE /\ sensor_readings' = sensor_readings
            /\ memory_store' =
                   IF memOk
                   THEN Append(memory_store,
                               [id |-> NewReadingId, ts |-> IsoFormat(t), machine_id |-> m])
                   ELSE memory_store
            /\ lastIngest' = [id |-> NewReadingId,
                              durable |-> IF engine THEN "failed" ELSE "none",
                              volatile |-> IF memOk THEN "ok" ELSE "failed",
                              status |-> InsertReadingStatus(memOk)]
    /\ UNCHANGED <<engine, dbUp, memory_store_predictions, predictions, fetched,
                   listed, history_out, held, procv, riskv>>

Ingest(m, t, memOk) == IngestUpTo(MaxIngest, m, t, memOk)

\* ------------------------------------------------------------ fetch_readings
\* text comparison of two isoformat() strings
IsoLess(a, b) == a[1] < b[1] \/ (a[1] = b[1] /\ a[2] < b[2])

\* the sequences that hold every element of the set S once
Orderings(S) ==
    {f \in [1..Cardinality(S) -> S] : \A a, b \in DOMAIN f : a # b => f[a] # f[b]}

\* results of SELECT ... ORDER BY ts DESC over the rows S (equal ts: any order)
OrderByTsDesc(S) ==
    {f \in Orderings(S) :
        \A a, b \in DOMAIN f : a < b => Instant(f[a].ts) >= Instant(f[b].ts)}

\* sorted(filtered, key=ts, reverse=True): stable, so records with equal
\* keys keep their order of insertion
SortedByTsReverse(q) ==
    CHOOSE f \in Orderings(DOMAIN q) :
        \A a, b \in DOMAIN f : a < b =>
            \/ IsoLess(q[f[b]].ts, q[f[a]].ts)
            \/ (q[f[a]].ts = q[f[b]].ts /\ f[a] < f[b])

\* q[offset : offset + limit]
Slice(q, offset, limit) ==
    LET last == IF offset + limit < Len(q) THEN offset + limit ELSE Len(q)
    IN  IF offset >= last THEN <<>> ELSE SubSeq(q, offset + 1, last)

\* the records of _memory_store that pass the machine filter, in store order
MemoryFiltered(m) ==
    SelectSeq(memory_store, LAMBDA r : m = "None" \/ r.machine_id = m)

\* which store fetch_readings reads: the table whenever the engine exists
ReadsTable == engine

FetchLimits == {1, 100}
FetchOffsets == {0, 1}

\* what db_service.fetch_readings(machine_id, limit, offset) returns; "None"
\* is no filter
Fetching(m, limit, offset) ==
    IF ReadsTable
    THEN IF dbUp
         THEN \E f \in OrderByTsDesc(IF m = "None" THEN sensor_readings ELSE RowsOfTable(m)) :
                 fetched' = [machine_id |-> m, limit |-> limit, offset |-> offset,
                             path |-> "table",
                             rows |-> Slice([k \in DOMAIN f |-> f[k].id], offset, limit)]
         ELSE fetched' = [machine_id |-> m, limit |-> limit, offset |-> offset,
                          path |-> "table_error", rows |-> <<>>]
    ELSE LET q == MemoryFiltered(m)
             f == SortedByTsReverse(q)
         IN  fetched' = [machine_id |-> m, limit |-> limit, offset |-> offset,
                         path |-> "memory",
                         rows |-> Slice([k \in DOMAIN f |-> q[f[k]].id], offset, limit)]

FetchReadings(m, limit, offset) ==
    /\ Fetching(m, limit, offset)
    /\ UNCHANGED <<store, predictions, nextId, lastIngest, listed, history_out,
                   held, procv, riskv>>

\* ---------------------------------------------------------------- get_ingest
\* response_model=List[IngestRecord]: `id: int` takes no UUID, so only the
\* empty list serialises
IngestRecordsValid(rows) == rows = <<>>

\* GET /ingest?machine_id=&limit=&offset=
GetIngest(m, limit, offset) ==
    /\ IF ValidListQuery(limit, offset)
       THEN /\ Fetching(m, limit, offset)
            /\ listed' = [machine_id |-> m, limit |-> limit, offset |-> offset,
                          status |-> IF IngestRecordsValid(fetched'.rows)
                                     THEN "ok" ELSE "response_error",
                          rows |-> fetched'.rows]
       ELSE /\ listed' = [machine_id |-> m, limit |-> limit, offset |-> offset,
                          status |-> "rejected", rows |-> <<>>]
            /\ UNCHANGED fetched
    /\ UNCHANGED <<store, predictions, nextId, lastIngest, history_out, held,
                   procv, riskv>>

\* ------------------------------------------- readers of the volatile store
\* get_memory_store(): list(_memory_store), a new list of the same records
GetMemoryStore ==
    /\ held' = [k \in DOMAIN memory_store |-> memory_store[k].id]
    /\ UNCHANGED <<store, predictions, nextId, lastIngest, fetched, listed,
                   history_out, procv, riskv>>

\* ids of the record objects a caller holds: through the list of
\* get_memory_store or through the result of the memory path of fetch_readings
HeldRecords ==
    {held[k] : k \in DOMAIN held}
        \cup (IF fetched.path = "memory"
              THEN {fetched.rows[k] : k \in DOMAIN fetched.rows} ELSE {})

\* the caller deletes the first element of the list it got
ModifyReturnedSequence ==
    /\ held # <<>>
    /\ held' = Tail(held)
    /\ UNCHANGED <<store, predictions, nextId, lastIngest, fetched, listed,
                   history_out, procv, riskv>>

\* the caller assigns rec["machine_id"] = m on a record it got: the record
\* is the object the store refers to
ModifyReturnedRecord(id, m) ==
    /\ id \in HeldRecords
    /\ memory_store' = [k \in DOMAIN memory_store |->
                           IF memory_store[k].id = id
                           THEN [memory_store[k] EXCEPT !.machine_id = m]
                           ELSE memory_store[k]]
    /\ memory_store' # memory_store
    /\ UNCHANGED <<engine, dbUp, sensor_readings, memory_store_predictions,
                   predictions, nextId, ingestv, procv, riskv>>

\* ------------------------------------------------------------------ predict

\* rows that ORDER BY ts DESC may put first (equal ts: any of them)
NewestRows_any_row(m) == RowsOfTable(m)
NewestRows(m) ==
    {r \in RowsOfTable(m) : \A q \in RowsOfTable(m) : Instant(q.ts) <= Instant(r.ts)}

\* id the store generates for the next predictions row (uuid_generate_v4)
NewPredictionId == MaxIngest + MaxStored + Len(predictions) + 1

Finished(p, how) ==
    /\ pc' = [pc EXCEPT ![p] = "done"]
    /\ outcome' = [outcome EXCEPT ![p] = how]

\* POST /machines/{machine_id}/predict up to the first request: select the
\* window, 404 without rows; the window itself only travels in the payload
Start(p, m) ==
    /\ pc[p] = "idle"
    /\ machine' = [machine EXCEPT ![p] = m]
    /\ IF ~engine \/ ~dbUp
       THEN /\ Finished(p, "read_error")
            /\ UNCHANGED <<latest_sensor_id, i>>
       ELSE IF RowsOfTable(m) = {}
       THEN /\ Finished(p, "not_found")
            /\ UNCHANGED <<latest_sensor_id, i>>
       ELSE /\ \E r \in NewestRows(m) :
                   latest_sensor_id' = [latest_sensor_id EXCEPT ![p] = r.id]
            /\ i' = [i EXCEPT ![p] = 0]
            /\ pc' = [pc EXCEPT ![p] = "attempt"]
            /\ UNCHANGED outcome
    /\ UNCHANGED <<store, predictions, nextId, ingestv, last_error, attempts,
                   slept, ml, raised, result, riskv>>

\* what the endpoint did with a request: failed with error number err (the
\* number of the request), or answered 2xx with a JSON body
Failure(k) == [ok |-> FALSE, err |-> k, body |-> NoResponse]
Success(r) == [ok |-> TRUE, err |-> 0, body |-> r]

\* return r.json()
Returned(r) == r

\* the loop variable i of `for i in range(retries)`: a local of the call
LoopIndex_shared(p) == i[1] + i[2]
LoopIndex(p) == i[p]

\* the delays slept once the except block ran for the request that just
\* failed: asyncio.sleep is awaited there without any condition
SleptAfterFailure_not_after_last(p) ==
    IF HasNextAttempt(LoopIndex(p))
    THEN Append(slept[p], BackoffDelay(LoopIndex(p)))
    ELSE slept[p]
SleptAfterFailure(p) == Append(slept[p], BackoffDelay(LoopIndex(p)))

\* a request of the retry loop fails (transport error, non-2xx status or a
\* body that is not JSON): remember the error, start the backoff sleep
AttemptFails(p) ==
    /\ pc[p] = "attempt"
    /\ attempts' = [attempts EXCEPT ![p] = Append(@, Failure(Len(@) + 1))]
    /\ last_error' = [last_error EXCEPT ![p] = Len(attempts[p]) + 1]
    /\ slept' = [slept EXCEPT ![p] = SleptAfterFailure(p)]
    /\ pc' = [pc EXCEPT ![p] = "sleep"]
    /\ UNCHANGED <<store, predictions, nextId, ingestv, machine, latest_sensor_id,
                   i, ml, raised, outcome, result, riskv>>

\* predictions after the remote call raised: the handler only raises 502
PredictionsAfterMlError_fallback_row(p) ==
    Append(predictions,
           [id |-> NewPredictionId, sensor_reading_id |-> latest_sensor_id[p],
            machine_id |-> machine[p], model_version |-> Null,
            prediction_label |-> Str("normal"), failure_probability |-> Num(0),
            raw_scores |-> EmptyDoc, raw_features |-> EmptyDoc,
            metadata |-> EmptyDoc])
PredictionsAfterMlError(p) == predictions

\* the backoff sleep ends: next iteration, or the loop is over and
\* last_error is raised, which predict turns into 502
Wake(p) ==
    /\ pc[p] = "sleep"
    /\ IF HasNextAttempt(LoopIndex(p))
       THEN /\ i' = [i EXCEPT ![p] = @ + 1]
            /\ pc' = [pc EXCEPT ![p] = "attempt"]
            /\ UNCHANGED <<raised, outcome, predictions>>
       ELSE /\ raised' = [raised EXCEPT ![p] = last_error[p]]
            /\ predictions' = PredictionsAfterMlError(p)
            /\ Finished(p, "ml_error")
            /\ UNCHANGED i
    /\ UNCHANGED <<store, nextId, ingestv, machine, latest_sensor_id,
                   last_error, attempts, slept, ml, result, riskv>>

\* where an invocation goes on once asyncio.sleep raised CancelledError: the
\* error is raised inside the except block, so it leaves the loop, and the
\* `except Exception` of predict does not take it
AfterCancel_swallowed == "attempt"
AfterCancel == "done"

\* the caller cancels the invocation while it sleeps between two requests
Cancel(p) ==
    /\ pc[p] = "sleep"
    /\ pc' = [pc EXCEPT ![p] = AfterCancel]
    /\ outcome' = [outcome EXCEPT ![p] = "cancelled"]
    /\ UNCHANGED <<store, predictions, nextId, ingestv, machine, latest_sensor_id,
                   i, last_error, attempts, slept, ml, raised, result, riskv>>

\* the row predict inserts for the normalised response n
PredictionRow(p, n) ==
    [id |-> NewPredictionId,
     sensor_reading_id |-> latest_sensor_id[p],
     machine_id |-> machine[p],
     model_version |-> ColumnText(n.model_version),
     prediction_label |-> ColumnText(n.label_to_store),
     failure_probability |-> n.failure_prob,
     raw_scores |-> DumpsOrEmpty(n.raw_scores),
     raw_features |-> DumpsOrEmpty(n.raw_features),
     metadata |-> DumpsOrEmpty(n.meta)]

\* the driver can bind the parameters of the INSERT: a dict or a list given
\* for a character varying column makes the statement fail
InsertBinds(n) ==
    /\ n.model_version.t \notin {"doc", "arr"}
    /\ n.label_to_store.t \notin {"doc", "arr"}

\* rows of predictions after the INSERT ... RETURNING id committed
PredictionsAfterInsert_one_per_machine(row) ==
    Append(SelectSeq(predictions, LAMBDA r : r.machine_id # row.machine_id), row)
PredictionsAfterInsert(row) == Append(predictions, row)

\* PredictionResult(...) validates
ResultValid(n) ==
    /\ IsOptStr(n.model_version)
    /\ IsOptStr(n.label_to_store)
    /\ IsOptDict(n.meta)

\* a request succeeds with response r: call_ml_service_with_retry returns it
\* and predict runs to its end without another suspension point
AttemptSucceeds(p, r) ==
    /\ pc[p] = "attempt"
    /\ attempts' = [attempts EXCEPT ![p] = Append(@, Success(r))]
    /\ ml' = [ml EXCEPT ![p] = Returned(r)]
    /\ LET n == Normalize(r)
           row == PredictionRow(p, n)
       IN  IF ~dbUp \/ ~InsertBinds(n)
           THEN /\ Finished(p, "write_error")
                /\ UNCHANGED <<predictions, result>>
           ELSE /\ predictions' = PredictionsAfterInsert(row)
                /\ IF ResultValid(n)
                   THEN /\ Finished(p, "ok")
                        /\ result' = [result EXCEPT ![p] =
                               [prediction_id |-> StrOf(row.id),
                                model_name |-> n.model_version,
                                label |-> n.label_to_store,
                                score |-> n.failure_prob,
                                meta |-> n.meta]]
                   ELSE /\ Finished(p, "response_error")
                        /\ UNCHANGED result
    /\ UNCHANGED <<store, nextId, ingestv, machine, latest_sensor_id, i,
                   last_error, slept, raised, riskv>>

\* ------------------------------------------------------------------ history
\* positions of the rows of predictions WHERE machine_id = m
PredictionsOf(m) == {k \in DOMAIN predictions : predictions[k].machine_id = m}

\* results of ORDER BY predictions.ts DESC over the rows at positions S: the
\* INSERT of predict names no ts and the column has no default, so ts is
\* NULL in every row and any order of the rows is a result
OrderByPredictionTsDesc(S) == Orderings(S)

\* the PredictionResult history builds from a row
HistoryResult(row) ==
    [prediction_id |-> StrOf(row.id),
     model_name |-> row.model_version,
     label |-> row.prediction_label,
     score |-> ToFloat(PyOr(row.failure_probability, Num(0))),
     meta |-> parse_metadata(row.metadata)]

HistoryResultValid(x) ==
    IsOptStr(x.model_name) /\ IsOptStr(x.label) /\ IsOptDict(x.meta)

\* GET /machines/{machine_id}/prediction-history?limit=
History(m, limit) ==
    /\ IF ~ValidHistoryQuery(limit)
       THEN history_out' = [machine_id |-> m, limit |-> limit,
                            status |-> "rejected", rows |-> <<>>]
       ELSE IF ~engine \/ ~dbUp
       THEN history_out' = [machine_id |-> m, limit |-> limit,
                            status |-> "error", rows |-> <<>>]
       ELSE \E f \in OrderByPredictionTsDesc(PredictionsOf(m)) :
               LET rows == Slice(f, 0, limit)
                   out == [k \in DOMAIN rows |-> HistoryResult(predictions[rows[k]])]
               IN  history_out' =
                       IF \A k \in DOMAIN out : HistoryResultValid(out[k])
                       THEN [machine_id |-> m, limit |-> limit, status |-> "ok",
                             rows |-> out]
                       ELSE [machine_id |-> m, limit |-> limit,
                             status |-> "response_error", rows |-> <<>>]
    /\ UNCHANGED <<store, predictions, nextId, lastIngest, fetched, listed, held,
                   procv, riskv>>

\* ------------------------------------------------------------ specification
Next ==
    \/ DbFail
    \/ DbRecover
    \/ \E m \in Machines, t \in Timestamps, memOk \in BOOLEAN : Ingest(m, t, memOk)
    \/ \E p \in Procs, m \in Machines : Start(p, m)
    \/ \E p \in Procs : AttemptFails(p)
    \/ \E p \in Procs, r \in Responses : AttemptSucceeds(p, r)
    \/ \E p \in Procs : Wake(p)

Spec == Init /\ [][Next]_vars

\* two invocations side by side over a store that answers
NextPair ==
    \/ \E m \in Machines, t \in Timestamps : Ingest(m, t, TRUE)
    \/ \E p \in Procs, m \in Machines : Start(p, m)
    \/ \E p \in Procs : AttemptFails(p)
    \/ \E p \in Procs, r \in Responses : AttemptSucceeds(p, r)
    \/ \E p \in Procs : Wake(p)

SpecPair == Init /\ [][NextPair]_vars

\* the same with callers that may cancel
NextCancel ==
    \/ NextPair
    \/ \E p \in Procs : Cancel(p)

SpecCancel == Init /\ [][NextCancel]_vars

\* one predict invocation, over every response shape
NextOne ==
    \/ \E m \in Machines, t \in Timestamps, memOk \in BOOLEAN : Ingest(m, t, memOk)
    \/ \E m \in Machines : Start(1, m)
    \/ AttemptFails(1)
    \/ \E r \in AllResponses : AttemptSucceeds(1, r)
    \/ Wake(1)

SpecOne == Init /\ [][NextOne]_vars

\* the storage service alone: insert_reading and fetch_readings; one payload
\* time is given with another UTC offset
StoreTimestamps == Timestamps \cup {[local |-> 3, off |-> 2]}

NextStore ==
    \/ DbFail
    \/ DbRecover
    \/ \E m \in Machines, t \in StoreTimestamps, memOk \in BOOLEAN :
            IngestUpTo(MaxStored, m, t, memOk)
    \/ \E m \in Machines \cup {"None"}, limit \in FetchLimits, offset \in FetchOffsets :
            FetchReadings(m, limit, offset)

SpecStore == Init /\ [][NextStore]_vars

\* one predict invocation over a window of several readings
WindowTimestamps == Timestamps \cup {[local |-> 3, off |-> 0]}

NextWindow ==
    \/ \E m \in Machines, t \in WindowTimestamps : IngestUpTo(MaxWindow, m, t, TRUE)
    \/ \E m \in Machines : Start(1, m)
    \/ AttemptFails(1)
    \/ \E r \in Responses : AttemptSucceeds(1, r)
    \/ Wake(1)

SpecWindow == Init /\ [][NextWindow]_vars

\* the volatile store and callers that keep and modify what they were given
NextMemory ==
    \/ DbFail
    \/ DbRecover
    \/ \E m \in Machines, t \in Timestamps : IngestUpTo(MaxStored, m, t, TRUE)
    \/ \E m \in Machines \cup {"None"} : FetchReadings(m, 100, 0)
    \/ GetMemoryStore
    \/ ModifyReturnedSequence
    \/ \E id \in 1..MaxStored, m \in Machines : ModifyReturnedRecord(id, m)

SpecMemory == Init /\ [][NextMemory]_vars

\* GET /ingest over the storage service
ListLimits == {0, 1, 2, 5000, 5001}
ListOffsets == {0 - 1, 0, 1}

NextList ==
    \/ \E m \in Machines, t \in Timestamps : IngestUpTo(MaxStored, m, t, TRUE)
    \/ \E m \in {"None", "m1"}, limit \in ListLimits, offset \in ListOffsets :
            GetIngest(m, limit, offset)

SpecList == Init /\ [][NextList]_vars

\* two invocations whose requests are answered, and the history of a machine
HistoryLimits == {1, 2, 2001}

NextHistory ==
    \/ \E m \in Machines, t \in Timestamps : Ingest(m, t, TRUE)
    \/ \E p \in Procs, m \in Machines : Start(p, m)
    \/ \E p \in Procs, r \in Responses : AttemptSucceeds(p, r)
    \/ \E m \in Machines, limit \in HistoryLimits : History(m, limit)

SpecHistory == Init /\ [][NextHistory]_vars

\* compute_risk alone
RiskTemps == {Null, Num(0), Num(305), Num(306), Num(315), Num(316)}
RiskVibs == {Null, Num(0), Num(1600), Num(1601), Num(2200), Num(2201)}
RiskCurrents == {Null, Num(0), Num(65), Num(66), Num(85), Num(86)}

ComputeRisk(temp_k, vib, current) ==
    /\ risk_in' = <<temp_k, vib, current>>
    /\ risk_out' = compute_risk(temp_k, vib, current)
    /\ UNCHANGED <<store, predictions, nextId, ingestv, procv>>

NextRisk ==
    \E temp_k \in RiskTemps, vib \in RiskVibs, current \in RiskCurrents :
        ComputeRisk(temp_k, vib, current)

SpecRisk == Init /\ [][NextRisk]_vars

\* ================================================================== claims
AllFailed(q) == \A k \in DOMAIN q : ~q[k].ok
FailsThenSucceeds(q, k) ==
    /\ Len(q) > k
    /\ \A j \in 1..k : ~q[j].ok
    /\ q[k + 1].ok
Range(q) == {q[k] : k \in DOMAIN q}

\* C1: if the endpoint fails on the first k < retries requests and answers the
\* next one, call_ml_service_with_retry has sent exactly k+1 requests, has
\* returned the body of that answer and sends nothing after it; with fewer
\* than `retries` failures it has not given up.
C1_FirstSuccessEndsRetry ==
    \A p \in Procs :
        /\ \A k \in 0..(Retries - 1) :
              FailsThenSucceeds(attempts[p], k) =>
                  /\ Len(attempts[p]) = k + 1
                  /\ ml[p] = attempts[p][k + 1].body
                  /\ raised[p] = 0
                  /\ pc[p] = "done"
        /\ (AllFailed(attempts[p]) /\ Len(attempts[p]) < Retries) =>
              (raised[p] = 0 /\ outcome[p] # "ml_error")

\* four failures, then the fifth request is answered and predict returns
C1_Witness ==
    \E p \in Procs :
        /\ FailsThenSucceeds(attempts[p], 4)
        /\ Len(attempts[p]) = 5
        /\ outcome[p] = "ok"

\* C2: when every request fails, call_ml_service_with_retry sends exactly 5
\* requests and then raises the error of the last one; the delays it sleeps
\* are 0.5, 1, 2, 4, 8 time-units (here in tenths), in that order.
ExpectedDelays == <<5, 10, 20, 40, 80>>
C2_ExhaustedRetries ==
    \A p \in Procs :
        /\ \A k \in DOMAIN slept[p] : k <= 5 /\ slept[p][k] = ExpectedDelays[k]
        /\ (pc[p] = "done" /\ attempts[p] # <<>> /\ AllFailed(attempts[p])) =>
              /\ Len(attempts[p]) = 5
              /\ outcome[p] = "ml_error"
              /\ raised[p] # 0
              /\ raised[p] = attempts[p][5].err
              /\ slept[p] = ExpectedDelays

\* an invocation whose five requests all failed
C2_Witness ==
    \E p \in Procs :
        /\ outcome[p] = "ml_error"
        /\ Len(attempts[p]) = 5
        /\ Len(slept[p]) = 5

\* invocations whose INSERT committed
Wrote(p) ==
    /\ pc[p] = "done"
    /\ attempts[p] # <<>>
    /\ attempts[p][Len(attempts[p])].ok
    /\ outcome[p] # "write_error"

\* C3: an invocation whose requests all failed ends in an error for its
\* caller, returns no label or probability, and leaves no Prediction: the
\* stored Predictions are exactly those of the invocations that got an answer.
C3_NoPredictionWithoutAnswer ==
    /\ \A p \in Procs :
          (pc[p] = "done" /\ Len(attempts[p]) = Retries /\ AllFailed(attempts[p])) =>
              (outcome[p] = "ml_error" /\ result[p] = NoResult)
    /\ Len(predictions) + Len(memory_store_predictions)
          = Cardinality({p \in Procs : Wrote(p)})

\* retries exhausted while nothing is stored
C3_Witness ==
    \E p \in Procs :
        /\ outcome[p] = "ml_error"
        /\ AllFailed(attempts[p])
        /\ predictions = <<>>

StoredIds ==
    {r.id : r \in sensor_readings} \cup {memory_store[k].id : k \in DOMAIN memory_store}

\* C5: a reading written while the engine exists but its insert fails is
\* returned by a later fetch_readings for its machine.
C5_FallbackReadingIsFetched ==
    [][\A m \in Machines :
          FetchReadings(m, 100, 0) =>
              \A k \in DOMAIN memory_store :
                  (engine /\ memory_store[k].machine_id = m) =>
                      memory_store[k].id \in Range(fetched'.rows)]_vars

\* C6: insert_reading reports failure exactly when the reading was stored in
\* neither store; an id is returned only for a stored reading.
C6_FailureReportedIffNotStored ==
    lastIngest.id # 0 =>
        /\ lastIngest.status = "ok" <=> lastIngest.id \in StoredIds
        /\ lastIngest.status = "error" <=>
              (lastIngest.durable # "ok" /\ lastIngest.volatile = "failed")

\* C7: a failed durable write of the Prediction never reaches the caller of
\* predict as an error: the row goes to the volatile store and the
\* Prediction is returned.
C7_PredictionWriteFallsThrough ==
    \A p \in Procs : outcome[p] # "write_error"

\* the rules of the risk tiers, in priority order
DangerAbove == <<315, 2200, 85>>
WatchAbove == <<305, 1600, 65>>
Triggers(in, above) == \E k \in 1..3 : in[k].t = "num" /\ in[k].n > above[k]
ReferenceRisk(in) ==
    IF \A k \in 1..3 : in[k].t = "null" THEN "Unknown"
    ELSE IF Triggers(in, DangerAbove) THEN "Bahaya"
    ELSE IF Triggers(in, WatchAbove) THEN "Waspada"
    ELSE "Normal"

\* C8: compute_risk returns Unknown iff all three inputs are null, else Danger
\* ("Bahaya") iff an input is strictly above 315 / 2200 / 85, else Watch
\* ("Waspada") iff an input is strictly above 305 / 1600 / 65, else Normal; a
\* null input triggers nothing and blocks nothing.
C8_RiskRules ==
    risk_out # "none" => risk_out = ReferenceRisk(risk_in)

\* temperature exactly 315 with the other inputs null is Watch, not Danger
C8_Witness ==
    /\ risk_in = <<Num(315), Null, Null>>
    /\ risk_out = "Waspada"

\* a key of the response that carries a value
Provided(v) == v.t \notin {"absent", "null"}

\* the Prediction row of the single invocation, once it is committed
Committed == pc[1] = "done" /\ Wrote(1) /\ Len(predictions) = 1

\* C9: for a document response the stored failureProbability is the number of
\* failure_probability whenever that key carries a value, and of score only
\* otherwise (null when the value is no number); the call does not fail.
C9_ProbabilityKeyPreference ==
    (pc[1] = "done" /\ ml[1] # NoResponse /\ ml[1].kind = "doc") =>
        /\ Committed
        /\ predictions[1].failure_probability =
              ToFloat(IF Provided(ml[1].failure_probability)
                      THEN ml[1].failure_probability ELSE ml[1].score)

\* C10: without a label in the response the stored label is normal below 0.3,
\* warning from 0.3 and below 0.7, failure from 0.7 of the stored probability
\* (0.0 when there is none); a label the response provides is stored verbatim.
ThresholdLabel(x) ==
    IF x < 30 THEN "normal" ELSE IF x >= 30 /\ x < 70 THEN "warning" ELSE "failure"
C10_LabelDerivation ==
    Committed =>
        LET row == predictions[1]
            prob == IF row.failure_probability.t = "num"
                    THEN row.failure_probability.n ELSE 0
            given == {v \in {ml[1].prediction_label, ml[1].label} : Provided(v)}
        IN  IF given = {}
            THEN row.prediction_label = Str(ThresholdLabel(prob))
            ELSE row.prediction_label \in given

\* a response that carries the six canonical keys and no other
IsCanonical(r) ==
    /\ r.kind = "doc"
    /\ r.failure_probability.t = "num"
    /\ r.failure_probability.n \in 0..100
    /\ r.prediction_label.t = "str"
    /\ r.model_version.t = "str"
    /\ r.raw_scores.t = "doc" /\ r.raw_features.t = "doc" /\ r.meta.t = "doc"
    /\ \A v \in {r.score, r.label, r.model_name, r.scores, r.probabilities,
                  r.features, r.explain} : v = Absent

\* C11: a canonical response (failure_probability a number in [0,1], any label
\* string, any documents) is stored and returned with exactly its own values
\* for probability, label, model version, raw scores, raw features and meta.
C11_CanonicalRoundTrip ==
    (pc[1] = "done" /\ ml[1] # NoResponse /\ IsCanonical(ml[1])) =>
        /\ Committed
        /\ predictions[1].failure_probability = ml[1].failure_probability
        /\ predictions[1].prediction_label = ml[1].prediction_label
        /\ predictions[1].model_version = ml[1].model_version
        /\ predictions[1].raw_scores = ml[1].raw_scores
        /\ predictions[1].raw_features = ml[1].raw_features
        /\ predictions[1].metadata = ml[1].meta
        /\ result[1].score = ml[1].failure_probability
        /\ result[1].label = ml[1].prediction_label
        /\ result[1].model_name = ml[1].model_version
        /\ result[1].meta = ml[1].meta

\* reading id of machine m that no stored reading of m is newer than
IsMostRecent(id, m) ==
    \E r \in sensor_readings :
        /\ r.id = id
        /\ r.machine_id = m
        /\ \A q \in sensor_readings :
              q.machine_id = m => Instant(q.ts) <= Instant(r.ts)

\* C12: the reading predict selects is one of its machine with the latest
\* timestamp among the readings stored when the window is fetched, and the
\* Prediction it persists references that reading and that machine.
C12_NewestReadingReferenced ==
    /\ [][(pc[1] = "idle" /\ pc'[1] = "attempt") =>
              IsMostRecent(latest_sensor_id'[1], machine'[1])]_vars
    /\ [](\A k \in DOMAIN predictions :
              /\ predictions[k].sensor_reading_id = latest_sensor_id[1]
              /\ predictions[k].machine_id = machine[1])

\* three readings of m1 ingested in the order of their timestamps, then the
\* response {failure_probability: 0.42}: the third reading is referenced
C12_Witness ==
    /\ sensor_readings = {[id |-> k, ts |-> [local |-> k, off |-> 0], machine_id |-> "m1"] :
                            k \in 1..3}
    /\ outcome[1] = "ok"
    /\ ml[1] = [BaseDoc EXCEPT !.failure_probability = Num(42)]
    /\ Len(predictions) = 1
    /\ predictions[1].sensor_reading_id = 3
    /\ predictions[1].prediction_label = Str("warning")
    /\ predictions[1].failure_probability = Num(42)

\* machine m has a reading in the table or in _memory_store
HasStoredReading(m) ==
    \/ \E r \in sensor_readings : r.machine_id = m
    \/ \E k \in DOMAIN memory_store : memory_store[k].machine_id = m

\* C13: predict answers NotFound exactly when its machine has no stored
\* reading: never when a reading of the machine is held by either store, and
\* (while the store answers) always when there is none, without a request to
\* the endpoint and without a Prediction.
C13_NotFoundIffNoReadings ==
    [][\A p \in Procs :
          (pc[p] = "idle" /\ pc'[p] # "idle") =>
              /\ HasStoredReading(machine'[p]) => outcome'[p] # "not_found"
              /\ (~HasStoredReading(machine'[p]) /\ engine /\ dbUp) =>
                    /\ outcome'[p] = "not_found"
                    /\ attempts'[p] = <<>>
                    /\ predictions' = predictions]_vars

\* positions of the rows of predictions that carry the id invocation p returned
RowsReturnedTo(p) ==
    {k \in DOMAIN predictions : StrOf(predictions[k].id) = result[p].prediction_id}

\* C14: every invocation that succeeded has exactly one row of its own in
\* predictions, with the machine, reading, label, probability, model and meta
\* it returned, whatever the other invocation did before, meanwhile or after;
\* two successful invocations have rows with distinct ids.
C14_ConcurrentPredictionsIndependent ==
    \A p \in Procs :
        outcome[p] = "ok" =>
            /\ Cardinality(RowsReturnedTo(p)) = 1
            /\ \A k \in RowsReturnedTo(p) :
                  /\ predictions[k].machine_id = machine[p]
                  /\ predictions[k].sensor_reading_id = latest_sensor_id[p]
                  /\ predictions[k].prediction_label = result[p].label
                  /\ predictions[k].failure_probability = result[p].score
                  /\ predictions[k].model_version = result[p].model_name
                  /\ predictions[k].metadata = result[p].meta
            /\ \A q \in Procs \ {p} :
                  outcome[q] = "ok" => result[q].prediction_id # result[p].prediction_id

\* both invocations succeeded for m1 with different responses; the one that
\* needed three requests committed after the one that needed a single request
C14_Witness ==
    /\ outcome[1] = "ok" /\ outcome[2] = "ok"
    /\ machine[1] = "m1" /\ machine[2] = "m1"
    /\ Len(attempts[1]) = 3 /\ Len(attempts[2]) = 1
    /\ ml[1] # ml[2]
    /\ Len(predictions) = 2
    /\ RowsReturnedTo(1) = {2} /\ RowsReturnedTo(2) = {1}

\* the id insert_reading returned is the id of the record it stored
ReturnedIdIsStored ==
    /\ lastIngest.durable = "ok" => \E r \in sensor_readings : r.id = lastIngest.id
    /\ lastIngest.volatile = "ok" =>
          \E k \in DOMAIN memory_store : memory_store[k].id = lastIngest.id

\* C15: the stored readings of both stores carry pairwise distinct ids; the id
\* insert_reading returns is the id of the record it stored, in the store that
\* took it; a stored record is never changed and a new one gets an id that no
\* stored reading has.
C15_ReadingIdsUnique ==
    /\ [](Cardinality(StoredIds) = Cardinality(sensor_readings) + Len(memory_store))
    /\ []ReturnedIdIsStored
    /\ [][/\ sensor_readings \subseteq sensor_readings'
          /\ Len(memory_store') >= Len(memory_store)
          /\ \A k \in DOMAIN memory_store : memory_store'[k] = memory_store[k]
          /\ lastIngest' # lastIngest => lastIngest'.id \notin StoredIds]_vars

\* one reading in the table and a later one, written during an outage, in
\* _memory_store, under the id just returned
C15_Witness ==
    /\ Cardinality(sensor_readings) = 1
    /\ Len(memory_store) = 1
    /\ lastIngest.volatile = "ok"
    /\ lastIngest.id = memory_store[1].id
    /\ \A r \in sensor_readings : r.id # memory_store[1].id

\* the instant an isoformat() text denotes
InstantOfIso(x) == x[1] - x[2]

\* the readings of the store in use, each with its id, instant and machine
ReadingsInUse ==
    IF engine
    THEN {[id |-> r.id, at |-> Instant(r.ts), machine_id |-> r.machine_id] :
            r \in sensor_readings}
    ELSE {[id |-> memory_store[k].id, at |-> InstantOfIso(memory_store[k].ts),
           machine_id |-> memory_store[k].machine_id] : k \in DOMAIN memory_store}

\* the newest-first orders of the readings S, as sequences of ids
NewestFirstIds(S) ==
    {[k \in DOMAIN f |-> f[k].id] :
        f \in {g \in Orderings(S) :
                 \A a, b \in DOMAIN g : a < b => g[a].at >= g[b].at}}

\* C16: while its store answers, fetch_readings(machine_id, limit, offset)
\* returns positions offset .. offset+limit-1 of a newest-first order, by
\* timestamp, of the stored readings that pass the machine filter.
C16_FetchNewestFirstPage ==
    [][\A m \in Machines \cup {"None"}, limit \in FetchLimits, offset \in FetchOffsets :
          (FetchReadings(m, limit, offset) /\ (engine => dbUp)) =>
              \E ids \in NewestFirstIds({r \in ReadingsInUse :
                                           m = "None" \/ r.machine_id = m}) :
                  fetched'.rows = Slice(ids, offset, limit)]_vars

\* C17: GET /ingest accepts, and passes to fetch_readings, every request with
\* 1 <= limit <= 5000 and offset >= 0, and rejects every other request
\* without a query.
C17_ListBoundsValidation ==
    listed.status # "none" =>
        IF 1 <= listed.limit /\ listed.limit <= 5000 /\ listed.offset >= 0
        THEN /\ listed.status # "rejected"
             /\ fetched.limit = listed.limit /\ fetched.offset = listed.offset
             /\ fetched.machine_id = listed.machine_id
        ELSE listed.status = "rejected" /\ listed.rows = <<>>

\* position in predictions (commit order) of the row with the returned id x
CreatedAt(x) == CHOOSE k \in DOMAIN predictions : StrOf(predictions[k].id) = x

\* C18: a history answer holds at most `limit` Predictions, all of the
\* requested machine, and none created later stands after one created earlier.
C18_HistoryNewestFirst ==
    history_out.status = "ok" =>
        /\ Len(history_out.rows) <= history_out.limit
        /\ \A a \in DOMAIN history_out.rows :
              /\ \E k \in DOMAIN predictions :
                    StrOf(predictions[k].id) = history_out.rows[a].prediction_id
              /\ predictions[CreatedAt(history_out.rows[a].prediction_id)].machine_id
                    = history_out.machine_id
        /\ \A a, b \in DOMAIN history_out.rows :
              a < b => CreatedAt(history_out.rows[a].prediction_id)
                          > CreatedAt(history_out.rows[b].prediction_id)

\* C19: an invocation cancelled during a backoff sleep is over at once, after
\* whichever failed request: it sends no further request, returns nothing and
\* writes no Prediction, the stored Predictions being those of the invocations
\* whose last request was answered.
C19_CancelStopsInvocation ==
    /\ [](\A p \in Procs :
              outcome[p] = "cancelled" =>
                  /\ pc[p] = "done"
                  /\ attempts[p] # <<>> /\ AllFailed(attempts[p])
                  /\ Len(slept[p]) = Len(attempts[p])
                  /\ result[p] = NoResult
                  /\ raised[p] = 0)
    /\ [](Len(predictions) + Len(memory_store_predictions)
              = Cardinality({p \in Procs : Wrote(p)}))
    /\ [][\A p \in Procs :
              outcome[p] = "cancelled" =>
                  /\ attempts'[p] = attempts[p]
                  /\ slept'[p] = slept[p]
                  /\ outcome'[p] = "cancelled"]_vars

\* cancelled in the sleep after the third failed request, nothing stored
C19_Witness ==
    \E p \in Procs :
        /\ outcome[p] = "cancelled"
        /\ Len(attempts[p]) = 3
        /\ i[p] = 2
        /\ predictions = <<>>

\* C20: while an invocation sleeps in a backoff, every step of another
\* invocation stays possible (start, a failing or an answered request, the
\* end of its own sleep); each invocation counts its own requests and sleeps
\* its own delays 0.5, 1, 2, ... whatever the other has been through, gives
\* up only after its own 5 failures, and a step of one invocation changes
\* nothing of the other.
C20_RetriesAreLocal ==
    /\ [](\A p \in Procs, q \in Procs :
              (p # q /\ pc[p] = "sleep") =>
                  /\ pc[q] = "idle" => \A m \in Machines : ENABLED Start(q, m)
                  /\ pc[q] = "attempt" =>
                        /\ ENABLED AttemptFails(q)
                        /\ \A r \in Responses : ENABLED AttemptSucceeds(q, r)
                  /\ pc[q] = "sleep" => ENABLED Wake(q))
    /\ [](\A q \in Procs :
              /\ \A k \in DOMAIN slept[q] : slept[q][k] = ExpectedDelays[k]
              /\ pc[q] = "attempt" => i[q] = Len(attempts[q])
              /\ pc[q] = "sleep" => i[q] + 1 = Len(attempts[q])
              /\ outcome[q] = "ml_error" => Len(attempts[q]) = Retries)
    /\ [][\A p \in Procs, q \in Procs :
              (p # q /\ attempts'[p] # attempts[p]) =>
                  /\ i'[q] = i[q] /\ attempts'[q] = attempts[q]
                  /\ slept'[q] = slept[q] /\ pc'[q] = pc[q]]_vars

\* one invocation asleep after its fourth failure while the other, itself
\* retried once after the shortest delay, has completed
C20_Witness ==
    /\ pc[1] = "sleep" /\ Len(attempts[1]) = 4
    /\ outcome[2] = "ok"
    /\ Len(attempts[2]) = 2 /\ slept[2] = <<5>>

\* the records a caller sees through the list it got from get_memory_store
HeldView ==
    [k \in DOMAIN held |->
        CHOOSE r \in Range(memory_store) : r.id = held[k]]

\* C21: the volatile store changes by appends only: no stored record is lost
\* or altered, whatever a caller does with a list or a record it was given;
\* and an append changes nothing in a list already returned.
C21_VolatileReadsAreCopies ==
    [][/\ Len(memory_store') >= Len(memory_store)
       /\ \A k \in DOMAIN memory_store : memory_store'[k] = memory_store[k]
       /\ Len(memory_store') > Len(memory_store) =>
              (held' = held /\ HeldView' = HeldView)]_vars

\* number of the requests of q that failed
FailedCount(q) == Cardinality({k \in DOMAIN q : ~q[k].ok})

\* C22: every failed request, the last one included, is followed by a sleep of
\* backoff * 2^i, i counting the requests from 0: an invocation has slept as
\* often as its requests failed, and the error is raised only from the sleep
\* that follows the last of the `retries` requests, of backoff * 2^(retries-1).
C22_SleepAfterEveryFailure ==
    /\ [](\A p \in Procs :
              /\ Len(slept[p]) = FailedCount(attempts[p])
              /\ \A k \in DOMAIN slept[p] : slept[p][k] = Backoff * 2^(k - 1)
              /\ raised[p] # 0 =>
                    /\ Len(attempts[p]) = Retries
                    /\ Len(slept[p]) = Retries
                    /\ slept[p][Retries] = Backoff * 2^(Retries - 1))
    /\ [][\A p \in Procs :
              raised'[p] # raised[p] =>
                  /\ pc[p] = "sleep"
                  /\ Len(slept[p]) = Retries
                  /\ slept'[p] = slept[p]
                  /\ attempts'[p] = attempts[p]]_vars

\* the fifth request has failed and the invocation sleeps 8 time-units
\* before anything is raised
C22_Witness ==
    \E p \in Procs :
        /\ pc[p] = "sleep"
        /\ Len(attempts[p]) = Retries /\ AllFailed(attempts[p])
        /\ slept[p][Retries] = 80
        /\ raised[p] = 0 /\ outcome[p] = "none"

\* C23: a history answer for a machine, given after predict returned a
\* Prediction of that machine, holds an entry with the returned id, and the
\* entry carries the returned label, model version and failure probability,
\* null included.
C23_HistoryReportsWhatPredictReturned ==
    [][\A m \in Machines, limit \in HistoryLimits :
          (History(m, limit) /\ history_out'.status = "ok") =>
              \A p \in Procs :
                  (outcome[p] = "ok" /\ machine[p] = m) =>
                      \E k \in DOMAIN history_out'.rows :
                          /\ history_out'.rows[k].prediction_id = result[p].prediction_id
                          /\ history_out'.rows[k].label = result[p].label
                          /\ history_out'.rows[k].model_name = result[p].model_name
                          /\ history_out'.rows[k].score = result[p].score]_vars

\* C24: every row of predictions carries an id that a successful invocation
\* returned to its caller; an invocation that ended in an error has left no
\* row, whatever the shape of the response.
C24_EveryStoredPredictionWasReturned ==
    \A k \in DOMAIN predictions :
        \E p \in Procs :
            /\ outcome[p] = "ok"
            /\ result[p].prediction_id = StrOf(predictions[k].id)

====
